---- MODULE Spec2Model ----
(***************************************************************************)
(* Model of the fourbyte tracing inspector (src/tracing/fourbyte.rs) and   *)
(* of the tracing utility functions (src/tracing/utils.rs).                *)
(*                                                                         *)
(* Bytes are integers 0..255, byte strings are sequences of bytes and Rust *)
(* Strings are sequences of one-character strings.                         *)
(***************************************************************************)
EXTENDS Integers, Sequences, FiniteSets, TLC

VARIABLES
    inner,       \* FourByteInspector.inner : (Selector, usize) -> u64
    lastInput,   \* the CallInput handed to the most recent call()
    lastSlice,   \* what shared_memory_buffer_slice gave that call (or NoSlice)
    ret,         \* how the most recent call() ended
    nCalls,      \* number of call() events so far
    nCounted,    \* number of call() events whose input bytes numbered >= 4
    frame,       \* the FourByteFrame of the most recent conversion
    gas,         \* one use of gas_used: its arguments and its result
    mem,         \* one use of convert_memory: its argument and its result
    err,         \* one use of fmt_error_msg: its arguments and its result
    rev          \* one use of maybe_revert_reason: the decoding and the result

tally == <<inner, lastInput, lastSlice, ret, nCalls, nCounted, frame>>
vars == <<inner, lastInput, lastSlice, ret, nCalls, nCounted, frame,
          gas, mem, err, rev>>

-----------------------------------------------------------------------------
(* Bounds of the model *)

\* number of call() events of one trace
MaxCalls == 3
\* longest short call input, in bytes
MaxInputLen == 5
\* length of the long call input, in bytes (a selector and 128 bytes)
LongInputLen == 132
\* largest gas amount
MaxGas == 12
\* longest memory
MaxMemLen == 65
\* longest revert reason over the small alphabet
MaxReasonLen == 4

-----------------------------------------------------------------------------
(* Hex and decimal rendering *)

\* hex::encode's alphabet (lowercase)
HexChars ==
    <<"0", "1", "2", "3", "4", "5", "6", "7",
      "8", "9", "a", "b", "c", "d", "e", "f">>

DecChars == <<"0", "1", "2", "3", "4", "5", "6", "7", "8", "9">>

\* hex::encode: two lowercase digits per byte, high nibble first
hex_encode(bytes) ==
    [i \in 1..(2 * Len(bytes)) |->
        IF i % 2 = 1
        THEN HexChars[(bytes[(i + 1) \div 2] \div 16) + 1]
        ELSE HexChars[(bytes[i \div 2] % 16) + 1]]

\* Display of a usize: decimal, no sign, no leading zeros
RECURSIVE fmt_usize(_)
fmt_usize(n) ==
    IF n < 10
    THEN <<DecChars[n + 1]>>
    ELSE fmt_usize(n \div 10) \o <<DecChars[(n % 10) + 1]>>

-----------------------------------------------------------------------------
(* The fourbyte inspector *)

\* the empty HashMap / BTreeMap
EmptyMap == [k \in {} |-> 0]

\* Option::None of shared_memory_buffer_slice
NoSlice == <<-1>>

\* CallInput::Bytes(bytes)
InputBytes(bytes) == [kind |-> "Bytes", bytes |-> bytes, start |-> 0, end |-> 0]

\* CallInput::SharedBuffer(start..end)
InputShared(start, end) ==
    [kind |-> "SharedBuffer", bytes |-> <<>>, start |-> start, end |-> end]

\* inputs.input.len(): the bytes' length, or the range's length
CallInputLen(input) ==
    IF input.kind = "SharedBuffer"
    THEN (IF input.end >= input.start THEN input.end - input.start ELSE 0)
    ELSE Len(input.bytes)

\* context.local().shared_memory_buffer_slice(range): the bytes of the range,
\* or None when the range does not lie inside the buffer
shared_memory_buffer_slice(buffer, input) ==
    IF input.start <= input.end /\ input.end <= Len(buffer)
    THEN SubSeq(buffer, input.start + 1, input.end)
    ELSE NoSlice

\* the match on inputs.input: the bytes the selector is read from
input_bytes(input, slice) ==
    IF input.kind = "SharedBuffer"
    THEN (IF slice # NoSlice THEN slice ELSE <<>>)
    ELSE input.bytes

\* *self.inner.entry(key).or_default() += 1
EntryIncrement(h, key) ==
    [k \in (DOMAIN h) \cup {key} |->
        IF k = key
        THEN (IF key \in DOMAIN h THEN h[key] ELSE 0) + 1
        ELSE h[k]]

\* a call() that counts inputs of three bytes and more
call_short_guard(h, input, slice) ==
    LET bytes == input_bytes(input, slice) IN
    IF Len(bytes) >= 3
    THEN [inner |-> EntryIncrement(h, <<SubSeq(bytes, 1, 3), Len(bytes) - 3>>),
          ret |-> "None"]
    ELSE [inner |-> h, ret |-> "None"]

\* a call() that overwrites the entry instead of incrementing it
call_overwrite(h, input, slice) ==
    LET bytes == input_bytes(input, slice) IN
    IF CallInputLen(input) >= 4 /\ Len(bytes) >= 4
    THEN [inner |-> [k \in (DOMAIN h) \cup {<<SubSeq(bytes, 1, 4), Len(bytes) - 4>>}
                        |-> IF k = <<SubSeq(bytes, 1, 4), Len(bytes) - 4>>
                            THEN 1 ELSE h[k]],
          ret |-> "None"]
    ELSE [inner |-> h, ret |-> "None"]

\* Inspector::call: the histogram after the call and how the call ended:
\* "None" (it returned None) or "panic" (&input_bytes[..4] was out of range)
call(h, input, slice) ==
    IF CallInputLen(input) >= 4
    THEN LET bytes == input_bytes(input, slice) IN
         IF Len(bytes) < 4
         THEN [inner |-> h, ret |-> "panic"]
         ELSE LET selector == SubSeq(bytes, 1, 4)
                  calldata_size == Len(bytes) - 4
              IN [inner |-> EntryIncrement(h, <<selector, calldata_size>>),
                  ret |-> "None"]
    ELSE [inner |-> h, ret |-> "None"]

\* a key without the calldata size
frame_key_no_size(fingerprint) ==
    <<"0", "x">> \o hex_encode(fingerprint[1])

\* format!("0x{}-{}", hex::encode(selector), *calldata_size)
frame_key(fingerprint) ==
    <<"0", "x">> \o hex_encode(fingerprint[1]) \o <<"-">>
        \o fmt_usize(fingerprint[2])

\* the values of a map
MapValues(h) == {h[k] : k \in DOMAIN h}

\* From<&FourByteInspector> for FourByteFrame: the maps that collecting the
\* (key, count) pairs can give; where two entries share a key, the one the
\* unordered iteration yields last stays
FourByteFrames(h) ==
    {f \in [{frame_key(fp) : fp \in DOMAIN h} -> MapValues(h)] :
        \A k \in DOMAIN f :
            \E fp \in DOMAIN h : frame_key(fp) = k /\ f[k] = h[fp]}

-----------------------------------------------------------------------------
(* Option<String> *)

None == [some |-> FALSE]
Some(s) == [some |-> TRUE, val |-> s]

-----------------------------------------------------------------------------
(* gas_used *)

\* revm's SpecId, in the order of its discriminants
SpecIdNames ==
    <<"FRONTIER", "FRONTIER_THAWING", "HOMESTEAD", "DAO_FORK", "TANGERINE",
      "SPURIOUS_DRAGON", "BYZANTIUM", "CONSTANTINOPLE", "PETERSBURG",
      "ISTANBUL", "MUIR_GLACIER", "BERLIN", "LONDON", "ARROW_GLACIER",
      "GRAY_GLACIER", "MERGE", "SHANGHAI", "CANCUN", "PRAGUE", "OSAKA">>

\* a SpecId is its position in the list
SpecIds == 1..Len(SpecIdNames)
SpecId(name) == CHOOSE i \in SpecIds : SpecIdNames[i] = name

\* SpecId::is_enabled_in(spec, other): spec is other or a later hardfork
is_enabled_in(spec, other) == spec >= other

\* the result of a u64 subtraction that leaves the range of u64 (a panic
\* where overflow is checked, a wrapped value where it is not)
Underflow == 0 - 1

\* u64 subtraction
u64_sub(a, b) == IF b > a THEN Underflow ELSE a - b

\* u64::min
u64_min(a, b) == IF a <= b THEN a ELSE b

\* gas_used with the larger instead of the smaller of the two refunds
gas_used_max(spec, spent, refunded) ==
    LET refund_quotient == IF is_enabled_in(spec, SpecId("LONDON")) THEN 5 ELSE 2
        cap == spent \div refund_quotient
    IN u64_sub(spent, IF refunded >= cap THEN refunded ELSE cap)

\* gas_used with the two quotients exchanged
gas_used_swapped(spec, spent, refunded) ==
    LET refund_quotient == IF is_enabled_in(spec, SpecId("LONDON")) THEN 2 ELSE 5
    IN u64_sub(spent, u64_min(refunded, spent \div refund_quotient))

\* gas_used: the gas spent less the refund, the refund capped at
\* spent / refund_quotient
gas_used(spec, spent, refunded) ==
    LET refund_quotient == IF is_enabled_in(spec, SpecId("LONDON")) THEN 5 ELSE 2
    IN u64_sub(spent, u64_min(refunded, spent \div refund_quotient))

-----------------------------------------------------------------------------
(* convert_memory *)

\* the bytes of one memory word
WordSize == 32

\* data.chunks_exact(32): the full words of data, in order
chunks_exact(data) ==
    [i \in 1..(Len(data) \div WordSize) |->
        SubSeq(data, WordSize * (i - 1) + 1, WordSize * i)]

\* chunks.remainder(): the bytes after the last full word
remainder_of(data) ==
    SubSeq(data, WordSize * (Len(data) \div WordSize) + 1, Len(data))

\* [0u8; 32] with the remainder copied to its start
last_chunk(remainder) ==
    [i \in 1..WordSize |-> IF i <= Len(remainder) THEN remainder[i] ELSE 0]

\* convert_memory with the remainder copied to the end of the last word
convert_memory_pad_left(data) ==
    LET chunks == chunks_exact(data)
        remainder == remainder_of(data)
        memory == [i \in 1..Len(chunks) |-> hex_encode(chunks[i])]
        pad == WordSize - Len(remainder)
    IN IF Len(remainder) # 0
       THEN Append(memory,
                hex_encode([i \in 1..WordSize |->
                    IF i > pad THEN remainder[i - pad] ELSE 0]))
       ELSE memory

\* convert_memory: the hex of every full word, then the hex of the remainder
\* padded with zero bytes, if there is a remainder
convert_memory(data) ==
    LET chunks == chunks_exact(data)
        remainder == remainder_of(data)
        memory == [i \in 1..Len(chunks) |-> hex_encode(chunks[i])]
    IN IF Len(remainder) # 0
       THEN Append(memory, hex_encode(last_chunk(remainder)))
       ELSE memory

-----------------------------------------------------------------------------
(* fmt_error_msg *)

\* revm's InstructionResult
InstructionResultNames ==
    <<"Stop", "Return", "SelfDestruct",
      "Revert", "CallTooDeep", "OutOfFunds", "CreateInitCodeStartingEF00",
      "OutOfGas", "MemoryOOG", "MemoryLimitOOG", "PrecompileOOG",
      "InvalidOperandOOG", "ReentrancySentryOOG", "OpcodeNotFound",
      "CallNotAllowedInsideStatic", "StateChangeDuringStaticCall",
      "InvalidFEOpcode", "InvalidJump", "NotActivated", "StackUnderflow",
      "StackOverflow", "OutOfOffset", "CreateCollision", "OverflowPayment",
      "PrecompileError", "NonceOverflow", "CreateContractSizeLimit",
      "CreateContractStartingWithEF", "CreateInitCodeSizeLimit",
      "FatalExternalError">>

\* an InstructionResult is its position in the list
InstructionResults == 1..Len(InstructionResultNames)
IR(name) == CHOOSE i \in InstructionResults : InstructionResultNames[i] = name

\* InstructionResult::is_ok
is_ok(res) == res \in {IR("Stop"), IR("Return"), IR("SelfDestruct")}

\* format!("{status:?}"): the name of the variant
fmt_debug(status) == InstructionResultNames[status]

\* the two tracing styles
TraceStyles == {"Parity", "Geth"}

\* the match of fmt_error_msg; parity is kind.is_parity()
error_msg(res, parity) ==
    CASE res = IR("Revert") ->
            IF parity THEN "Reverted" ELSE "execution reverted"
      [] res \in {IR("OutOfGas"), IR("PrecompileOOG")} ->
            IF parity THEN "Out of gas" ELSE "out of gas"
      [] res = IR("OutOfFunds") ->
            IF parity THEN "Insufficient balance for transfer"
            ELSE "insufficient balance for transfer"
      [] res = IR("MemoryOOG") ->
            IF parity THEN "Out of gas" ELSE "out of gas: out of memory"
      [] res = IR("MemoryLimitOOG") ->
            IF parity THEN "Out of gas" ELSE "out of gas: reach memory limit"
      [] res = IR("InvalidOperandOOG") ->
            IF parity THEN "Out of gas" ELSE "out of gas: invalid operand"
      [] res = IR("OpcodeNotFound") ->
            IF parity THEN "Bad instruction" ELSE "invalid opcode"
      [] res = IR("StackOverflow") -> "Out of stack"
      [] res = IR("InvalidJump") ->
            IF parity THEN "Bad jump destination" ELSE "invalid jump destination"
      [] res = IR("PrecompileError") ->
            IF parity THEN "Built-in failed" ELSE "precompiled failed"
      [] res = IR("InvalidFEOpcode") ->
            IF parity THEN "Bad instruction" ELSE "invalid opcode: INVALID"
      [] res = IR("ReentrancySentryOOG") ->
            IF parity THEN "Out of gas"
            ELSE "out of gas: not enough gas for reentrancy sentry"
      [] OTHER -> fmt_debug(res)

\* fmt_error_msg without the early return for a successful result
fmt_error_msg_no_ok_check(res, kind) ==
    Some(error_msg(res, kind = "Parity"))

\* fmt_error_msg with the two styles exchanged
fmt_error_msg_styles_swapped(res, kind) ==
    IF is_ok(res) THEN None ELSE Some(error_msg(res, kind # "Parity"))

\* fmt_error_msg
fmt_error_msg(res, kind) ==
    IF is_ok(res) THEN None ELSE Some(error_msg(res, kind = "Parity"))

-----------------------------------------------------------------------------
(* maybe_revert_reason *)

\* GenericRevertReason::decode(output) found nothing
NoMatch == [tag |-> "NoMatch", variant |-> "", reason |-> <<>>, code |-> 0]
\* GenericRevertReason::ContractError(ContractError::Revert(reason))
DecodedRevert(reason) ==
    [tag |-> "ContractError", variant |-> "Revert", reason |-> reason, code |-> 0]
\* GenericRevertReason::ContractError(ContractError::Panic(code))
DecodedPanic(code) ==
    [tag |-> "ContractError", variant |-> "Panic", reason |-> <<>>, code |-> code]
\* GenericRevertReason::RawString(string)
DecodedRawString(string) ==
    [tag |-> "RawString", variant |-> "", reason |-> string, code |-> 0]

\* err.to_string() of a contract error that is not a Revert: a Panic
contract_error_to_string(d) ==
    <<"p", "a", "n", "i", "c", ":", " ">> \o
        (CASE d.code = 1 -> <<"a", "s", "s", "e", "r", "t", "i", "o", "n", " ", "f", "a", "i", "l", "e", "d">>
           [] d.code = 17 -> <<"a", "r", "i", "t", "h", "m", "e", "t", "i", "c", " ", "u", "n", "d", "e", "r", "f", "l", "o", "w", " ", "o", "r", " ", "o", "v", "e", "r", "f", "l", "o", "w">>
           [] d.code = 18 -> <<"d", "i", "v", "i", "s", "i", "o", "n", " ", "o", "r", " ", "m", "o", "d", "u", "l", "o", " ", "b", "y", " ", "z", "e", "r", "o">>
           [] OTHER -> <<"u", "n", "k", "n", "o", "w", "n", " ", "c", "o", "d", "e", ":", " ">> \o fmt_usize(d.code))

\* maybe_revert_reason without the test for an empty reason
maybe_revert_reason_keep_empty(decoded) ==
    IF decoded.tag = "NoMatch"
    THEN None
    ELSE Some(IF decoded.tag = "ContractError" /\ decoded.variant # "Revert"
              THEN contract_error_to_string(decoded)
              ELSE decoded.reason)

\* maybe_revert_reason, given what GenericRevertReason::decode(output) gave
maybe_revert_reason(decoded) ==
    IF decoded.tag = "NoMatch"
    THEN None
    ELSE LET reason ==
                IF decoded.tag = "ContractError"
                THEN (IF decoded.variant = "Revert"
                      THEN decoded.reason
                      ELSE contract_error_to_string(decoded))
                ELSE decoded.reason
         IN IF reason = <<>> THEN None ELSE Some(reason)

-----------------------------------------------------------------------------
(* The call events of a trace *)

\* the selectors of the calls (0x27dc297e, 0x38cc4831)
Selectors == {<<39, 220, 41, 126>>, <<56, 204, 72, 49>>}

\* call data that follows a selector: n bytes
Calldata(n) == [i \in 1..n |-> (i * 7) % 256]

\* the lengths of the call inputs
InputLens == (0..MaxInputLen) \cup {LongInputLen}

\* call inputs given as bytes: the prefixes of selector ++ calldata
ByteInputs ==
    {SubSeq(sel \o Calldata(LongInputLen), 1, n) :
        sel \in Selectors, n \in InputLens}

\* contents of the shared memory buffer at a call: a full call input, or a
\* buffer that no longer holds it
SharedBuffers ==
    {sel \o Calldata(LongInputLen - 4) : sel \in Selectors} \cup {<<>>}

NoInput == [kind |-> "none", bytes |-> <<>>, start |-> 0, end |-> 0]

\* a fresh inspector (Default)
TallyInit ==
    /\ inner = EmptyMap
    /\ lastInput = NoInput
    /\ lastSlice = NoSlice
    /\ ret = "None"
    /\ nCalls = 0
    /\ nCounted = 0
    /\ frame = [taken |-> FALSE, map |-> EmptyMap]

\* the utility functions not in use
GasIdle == gas = [spec |-> 0, spent |-> 0, refunded |-> 0, done |-> FALSE, out |-> 0]
MemIdle == mem = [data |-> <<>>, done |-> FALSE, out |-> <<>>]
ErrIdle == err = [res |-> 0, kind |-> "Geth", done |-> FALSE, out |-> None]
RevIdle == rev = [decoded |-> NoMatch, done |-> FALSE, out |-> None]

Init == TallyInit /\ GasIdle /\ MemIdle /\ ErrIdle /\ RevIdle

\* one call() with the given input, the lookup in the shared buffer done.
\* A call that panics has not touched the histogram; the inspector outlives
\* the unwinding when its owner catches it, so later steps stay possible.
\* The counts are u64 and stay far below 2^64 for MaxCalls events.
OnCall(input, slice) ==
    LET r == call(inner, input, slice) IN
    /\ nCalls < MaxCalls
    /\ inner' = r.inner
    /\ ret' = r.ret
    /\ lastInput' = input
    /\ lastSlice' = slice
    /\ nCalls' = nCalls + 1
    /\ nCounted' = nCounted + (IF Len(input_bytes(input, slice)) >= 4 THEN 1 ELSE 0)
    /\ UNCHANGED <<frame, gas, mem, err, rev>>

\* the engine calls with CallInput::Bytes
CallBytes ==
    \E bytes \in ByteInputs : OnCall(InputBytes(bytes), NoSlice)

\* the engine calls with CallInput::SharedBuffer
CallShared ==
    \E buffer \in SharedBuffers, end \in InputLens :
        LET input == InputShared(0, end) IN
        OnCall(input, shared_memory_buffer_slice(buffer, input))

\* FourByteFrame::from(&inspector)
Snapshot ==
    /\ \E f \in FourByteFrames(inner) : frame' = [taken |-> TRUE, map |-> f]
    /\ UNCHANGED <<inner, lastInput, lastSlice, ret, nCalls, nCounted>>
    /\ UNCHANGED <<gas, mem, err, rev>>

Next == CallBytes \/ CallShared \/ Snapshot

Spec == Init /\ [][Next]_vars

-----------------------------------------------------------------------------
(* Properties of the fourbyte inspector *)

\* the sum of the counts of a map
RECURSIVE SumCounts(_)
SumCounts(h) ==
    IF DOMAIN h = {}
    THEN 0
    ELSE LET k == CHOOSE x \in DOMAIN h : TRUE IN
         h[k] + SumCounts([x \in (DOMAIN h) \ {k} |-> h[x]])

\* the step is a call() event
IsCallStep == nCalls' = nCalls + 1

\* the input of the call just made was resolved to bytes
InputResolved(input, slice) ==
    input.kind = "Bytes" \/ (input.kind = "SharedBuffer" /\ slice # NoSlice)

\* the bytes the input of the call just made was resolved to
ResolvedBytes(input, slice) ==
    IF input.kind = "Bytes" THEN input.bytes ELSE slice

\* the characters of lowercase hex and of decimal numbers
LowerHexSet == {HexChars[i] : i \in 1..16}
DecSet == {DecChars[i] : i \in 1..10}

\* "0x" + 8 lowercase hex digits + "-" + a decimal number
WellFormedKey(k) ==
    /\ Len(k) >= 12
    /\ k[1] = "0"
    /\ k[2] = "x"
    /\ \A i \in 3..10 : k[i] \in LowerHexSet
    /\ k[11] = "-"
    /\ \A i \in 12..Len(k) : k[i] \in DecSet
    /\ (Len(k) = 12 \/ k[12] # "0")

HexValue(c) == CHOOSE v \in 0..15 : HexChars[v + 1] = c
DecValue(c) == CHOOSE v \in 0..9 : DecChars[v + 1] = c

\* the bytes a sequence of hex digits stands for
HexDecode(cs) ==
    [i \in 1..(Len(cs) \div 2) |->
        16 * HexValue(cs[2 * i - 1]) + HexValue(cs[2 * i])]

\* the number a sequence of decimal digits stands for
RECURSIVE DecParse(_)
DecParse(cs) ==
    IF Len(cs) = 0
    THEN 0
    ELSE 10 * DecParse(SubSeq(cs, 1, Len(cs) - 1)) + DecValue(cs[Len(cs)])

\* the fingerprint a well-formed report key stands for
ParseKey(k) == <<HexDecode(SubSeq(k, 3, 10)), DecParse(SubSeq(k, 12, Len(k)))>>

\* report f holds histogram h without loss
Lossless(h, f) ==
    /\ Cardinality(DOMAIN f) = Cardinality(DOMAIN h)
    /\ \A k \in DOMAIN f :
        /\ WellFormedKey(k)
        /\ ParseKey(k) \in DOMAIN h
        /\ f[k] = h[ParseKey(k)]
    /\ \A fp \in DOMAIN h : \E k \in DOMAIN f : ParseKey(k) = fp

\* C1: a call() whose input is a range into the shared buffer that cannot be
\* resolved is treated as a call with empty input: it completes without
\* error, returns None and leaves the histogram unchanged, whatever the
\* length of the range.
C1_UnresolvedTreatedAsEmpty ==
    [][(IsCallStep /\ lastInput'.kind = "SharedBuffer" /\ lastSlice' = NoSlice)
        => (ret' = "None" /\ inner' = inner)]_vars

\* C2: the counts of a report sum to the number of call() events so far
\* whose input bytes (empty when a shared range was not resolved) numbered
\* at least 4.
C2_ReportTotalIsCountedCalls ==
    [][Snapshot => SumCounts(frame'.map) = nCounted]_vars

C2_Witness ==
    /\ frame.taken
    /\ nCalls = MaxCalls
    /\ nCounted = 2
    /\ SumCounts(frame.map) = 2
    /\ Cardinality(DOMAIN frame.map) = 2

\* C3: a call() with resolved input bytes of length n returns None; for
\* n < 4 it leaves the histogram unchanged; for n >= 4 it adds 1 to the entry
\* of (first 4 bytes, n - 4), created at 0 if absent, and leaves every other
\* entry unchanged. No step removes an entry or decreases a count.
C3_CallEffect ==
    [][/\ (IsCallStep /\ InputResolved(lastInput', lastSlice'))
            => LET bytes == ResolvedBytes(lastInput', lastSlice')
                   n == Len(bytes)
                   key == <<SubSeq(bytes, 1, 4), n - 4>>
               IN /\ ret' = "None"
                  /\ (n < 4 => inner' = inner)
                  /\ (n >= 4 =>
                        /\ DOMAIN inner' = (DOMAIN inner) \cup {key}
                        /\ inner'[key] =
                            (IF key \in DOMAIN inner THEN inner[key] ELSE 0) + 1
                        /\ \A k \in (DOMAIN inner) \ {key} : inner'[k] = inner[k])
       /\ \A k \in DOMAIN inner : k \in DOMAIN inner' /\ inner'[k] >= inner[k]
      ]_vars

C3_Witness ==
    /\ ret = "None"
    /\ lastInput.kind = "Bytes"
    /\ Len(lastInput.bytes) = 4
    /\ <<lastInput.bytes, 0>> \in DOMAIN inner
    /\ inner[<<lastInput.bytes, 0>>] = 2
    /\ Cardinality(DOMAIN inner) = 2

\* C4: a conversion to a report leaves the histogram unchanged, and the
\* report has exactly one entry per histogram entry, under the key "0x" +
\* 8 lowercase hex digits of the selector + "-" + the decimal calldata size,
\* with the same count; the histogram can be read back from the report.
C4_SnapshotLossless ==
    [][Snapshot => (inner' = inner /\ Lossless(inner, frame'.map))]_vars

C4_Witness ==
    /\ frame.taken
    /\ Cardinality(DOMAIN frame.map) = 3
    /\ <<"0", "x", "2", "7", "d", "c", "2", "9", "7", "e", "-", "1", "2", "8">>
            \in DOMAIN frame.map
    /\ <<"0", "x", "2", "7", "d", "c", "2", "9", "7", "e", "-", "0">>
            \in DOMAIN frame.map
    /\ <<"0", "x", "3", "8", "c", "c", "4", "8", "3", "1", "-", "0">>
            \in DOMAIN frame.map

-----------------------------------------------------------------------------
(* One use of each utility function, on arguments drawn from small sets *)

\* gas_used(spec, spent, refunded)
GasInit ==
    /\ TallyInit /\ MemIdle /\ ErrIdle /\ RevIdle
    /\ gas \in [spec : SpecIds, spent : 0..MaxGas, refunded : 0..MaxGas,
                done : {FALSE}, out : {0}]

GasUsed ==
    /\ ~gas.done
    /\ gas' = [gas EXCEPT !.done = TRUE,
                          !.out = gas_used(gas.spec, gas.spent, gas.refunded)]
    /\ UNCHANGED <<tally, mem, err, rev>>

SpecGas == GasInit /\ [][GasUsed]_vars

\* the memory contents: pattern `seed`, n bytes
MemSeeds == {0, 1, 37, 255}
MemData(seed, n) == [i \in 1..n |-> (seed * i) % 256]

\* convert_memory(data)
MemInit ==
    /\ TallyInit /\ GasIdle /\ ErrIdle /\ RevIdle
    /\ \E seed \in MemSeeds, n \in 0..MaxMemLen :
        mem = [data |-> MemData(seed, n), done |-> FALSE, out |-> <<>>]

ConvertMemory ==
    /\ ~mem.done
    /\ mem' = [mem EXCEPT !.done = TRUE, !.out = convert_memory(mem.data)]
    /\ UNCHANGED <<tally, gas, err, rev>>

SpecMemory == MemInit /\ [][ConvertMemory]_vars

\* fmt_error_msg(res, kind)
ErrInit ==
    /\ TallyInit /\ GasIdle /\ MemIdle /\ RevIdle
    /\ err \in [res : InstructionResults, kind : TraceStyles,
                done : {FALSE}, out : {None}]

FmtErrorMsg ==
    /\ ~err.done
    /\ err' = [err EXCEPT !.done = TRUE, !.out = fmt_error_msg(err.res, err.kind)]
    /\ UNCHANGED <<tally, gas, mem, rev>>

SpecError == ErrInit /\ [][FmtErrorMsg]_vars

\* the strings of up to n characters over a two-letter alphabet
RECURSIVE Strings(_)
Strings(n) ==
    IF n = 0
    THEN {<<>>}
    ELSE LET shorter == Strings(n - 1) IN
         shorter \cup {Append(t, c) : t \in shorter, c \in {"m", "y"}}

MyRevert == <<"m", "y", " ", "r", "e", "v", "e", "r", "t">>

\* the decoded reasons
Reasons == Strings(MaxReasonLen) \cup {MyRevert}

\* what GenericRevertReason::decode(output) can give
Decodings ==
    {NoMatch}
        \cup {DecodedRevert(r) : r \in Reasons}
        \cup {DecodedPanic(c) : c \in {1, 17, 18, 255}}
        \cup {DecodedRawString(r) : r \in Reasons}

\* maybe_revert_reason(output)
RevInit ==
    /\ TallyInit /\ GasIdle /\ MemIdle /\ ErrIdle
    /\ \E d \in Decodings : rev = [decoded |-> d, done |-> FALSE, out |-> None]

MaybeRevertReason ==
    /\ ~rev.done
    /\ rev' = [rev EXCEPT !.done = TRUE, !.out = maybe_revert_reason(rev.decoded)]
    /\ UNCHANGED <<tally, gas, mem, err>>

SpecRevert == RevInit /\ [][MaybeRevertReason]_vars

-----------------------------------------------------------------------------
(* Properties of the utility functions *)

\* the hardforks at or after London
LondonOrLater ==
    {SpecId(n) : n \in {"LONDON", "ARROW_GLACIER", "GRAY_GLACIER", "MERGE",
                        "SHANGHAI", "CANCUN", "PRAGUE", "OSAKA"}}

\* the smaller of two numbers
Min(a, b) == IF a < b THEN a ELSE b

\* C5: gas_used returns spent - min(refunded, floor(spent / q)), q = 5 at or
\* after London and q = 2 before; the subtraction does not underflow and the
\* result lies between spent - floor(spent / q) and spent.
C5_GasUsedValue ==
    gas.done =>
        LET q == IF gas.spec \in LondonOrLater THEN 5 ELSE 2 IN
        /\ gas.out # Underflow
        /\ gas.out = gas.spent - Min(gas.refunded, gas.spent \div q)
        /\ gas.spent - (gas.spent \div q) <= gas.out
        /\ gas.out <= gas.spent

C5_Witness ==
    /\ gas.done
    /\ gas.spec = SpecId("LONDON")
    /\ gas.spent = 12
    /\ gas.refunded = 5
    /\ gas.out = 10

\* C6: for the same spent and refunded, gas_used before London (quotient 2)
\* is at most gas_used at or after London (quotient 5), and the two are equal
\* whenever refunded <= floor(spent / 5).
C6_GasUsedQuotientOrder ==
    gas.done =>
        \A other \in SpecIds :
            LET mine == gas.out
                theirs == gas_used(other, gas.spent, gas.refunded)
                before == IF gas.spec \in LondonOrLater THEN theirs ELSE mine
                after == IF gas.spec \in LondonOrLater THEN mine ELSE theirs
            IN ((gas.spec \in LondonOrLater) # (other \in LondonOrLater)) =>
                /\ before <= after
                /\ (gas.refunded <= gas.spent \div 5 => before = after)

C6_Witness ==
    /\ gas.done
    /\ gas.spec = SpecId("BERLIN")
    /\ gas.spent = 10
    /\ gas.refunded = 4
    /\ gas.out = 6
    /\ gas_used(SpecId("LONDON"), 10, 4) = 8

\* the concatenation of a sequence of sequences
RECURSIVE Flatten(_)
Flatten(ss) ==
    IF Len(ss) = 0 THEN <<>> ELSE Flatten(SubSeq(ss, 1, Len(ss) - 1)) \o ss[Len(ss)]

\* C7: for data of length L, convert_memory returns ceil(L / 32) strings of
\* 64 lowercase hex characters each; decoded and concatenated they are the
\* data followed by 32 * ceil(L / 32) - L zero bytes.
C7_ConvertMemoryChunks ==
    mem.done =>
        LET L == Len(mem.data)
            n == (L + 31) \div 32
        IN /\ Len(mem.out) = n
           /\ \A i \in 1..Len(mem.out) :
                /\ Len(mem.out[i]) = 64
                /\ \A j \in 1..64 : mem.out[i][j] \in LowerHexSet
           /\ Flatten([i \in 1..Len(mem.out) |-> HexDecode(mem.out[i])])
                = mem.data \o [j \in 1..(32 * n - L) |-> 0]

C7_Witness ==
    /\ mem.done
    /\ Len(mem.data) = 65
    /\ mem.data[65] = 65
    /\ Len(mem.out) = 3
    /\ SubSeq(mem.out[3], 1, 4) = <<"4", "1", "0", "0">>

\* C8: fmt_error_msg gives a result for every outcome and style; the result
\* is absent exactly when the outcome is a success, under either style.
C8_AbsentIffSuccess ==
    err.done =>
        /\ err.out.some = ~is_ok(err.res)
        /\ \A kind \in TraceStyles :
            fmt_error_msg(err.res, kind).some = err.out.some

C8_Witness ==
    /\ err.done
    /\ err.res = IR("Return")
    /\ err.kind = "Parity"
    /\ err.out = None

\* the table of the error messages: outcome, parity string, geth string
ErrorTable ==
    {<<"Revert", "Reverted", "execution reverted">>,
     <<"OutOfGas", "Out of gas", "out of gas">>,
     <<"PrecompileOOG", "Out of gas", "out of gas">>,
     <<"OutOfFunds", "Insufficient balance for transfer",
       "insufficient balance for transfer">>,
     <<"MemoryOOG", "Out of gas", "out of gas: out of memory">>,
     <<"MemoryLimitOOG", "Out of gas", "out of gas: reach memory limit">>,
     <<"InvalidOperandOOG", "Out of gas", "out of gas: invalid operand">>,
     <<"ReentrancySentryOOG", "Out of gas",
       "out of gas: not enough gas for reentrancy sentry">>,
     <<"OpcodeNotFound", "Bad instruction", "invalid opcode">>,
     <<"StackOverflow", "Out of stack", "Out of stack">>,
     <<"InvalidJump", "Bad jump destination", "invalid jump destination">>,
     <<"PrecompileError", "Built-in failed", "precompiled failed">>,
     <<"InvalidFEOpcode", "Bad instruction", "invalid opcode: INVALID">>}

DecodedReason(d) ==
    CASE d.tag = "RawString" -> d.reason
      [] d.tag = "ContractError" /\ d.variant = "Revert" -> d.reason
      [] OTHER -> contract_error_to_string(d)

\* C10: maybe_revert_reason never returns a present empty string; it is
\* absent when the decoder found nothing or the decoded reason is empty, and
\* otherwise it is the decoded reason unchanged.
C10_RevertReason ==
    rev.done =>
        /\ rev.out # Some(<<>>)
        /\ (rev.decoded.tag = "NoMatch" => rev.out = None)
        /\ (rev.decoded.tag # "NoMatch" =>
                IF DecodedReason(rev.decoded) = <<>>
                THEN rev.out = None
                ELSE rev.out = Some(DecodedReason(rev.decoded)))

C10_Witness ==
    /\ rev.done
    /\ rev.decoded = DecodedRevert(MyRevert)
    /\ rev.out = Some(MyRevert)

====
